---------------------------- MODULE Spec2Model ----------------------------
(***************************************************************************)
(* A model of the form-mcp session engine (src/src/formTypes.ts, which     *)
(* holds both the types and the engine code imported as formEngine.js)    *)
(* and of the tool handlers that call it (src/src/mcpServer.ts).           *)
(*                                                                         *)
(* JavaScript values are records [kind, str, num, obj]; a JSON schema is a *)
(* record [type, format, hasMinimum, minimum, keys, properties, required]  *)
(* where keys is Object.keys(properties) in declaration order.  A record   *)
(* of answers (session.data) is the sequence of its entries in the order   *)
(* Object.entries yields them: insertion order, an assignment to a key     *)
(* that is already present keeps the key's position.                       *)
(***************************************************************************)
EXTENDS Integers, Sequences, FiniteSets, TLC

(***************************************************************************)
(* Bounds of the model.                                                    *)
(***************************************************************************)
\* answers held by the session of Spec
MaxEntries == 3
\* sessions of StoreSpec, and the answers they hold together
MaxSessions == 2
MaxStoreEntries == 1
\* HTTP requests the bridge of BridgeSpec receives
MaxRequests == 3

(***************************************************************************)
(* JavaScript values.                                                      *)
(***************************************************************************)
NoProps == <<>>

StrVal(s) == [kind |-> "string", str |-> s, num |-> 0, obj |-> NoProps]

IntVal(n) == [kind |-> "integer", str |-> "", num |-> n, obj |-> NoProps]

Undefined == [kind |-> "undefined", str |-> "", num |-> 0, obj |-> NoProps]

ObjVal(f) == [kind |-> "object", str |-> "", num |-> 0, obj |-> f]

EmptyObject == ObjVal(NoProps)

\* the strings of the model that ajv-formats' "email" format accepts
EmailStrings == {"alice@example.com"}

Values == {StrVal("Alice"), StrVal("alice@example.com"), IntVal(-1), IntVal(30)}

(***************************************************************************)
(* JSON schemas.                                                           *)
(***************************************************************************)
Leaf(t) ==
    [type |-> t, format |-> "", hasMinimum |-> FALSE, minimum |-> 0,
     keys |-> <<>>, properties |-> NoProps, required |-> <<>>]

StringSchema == Leaf("string")

EmailSchema == [Leaf("string") EXCEPT !.format = "email"]

AgeSchema == [Leaf("integer") EXCEPT !.hasMinimum = TRUE, !.minimum = 0]

ObjectSchema(ks, props, req) ==
    [type |-> "object", format |-> "", hasMinimum |-> FALSE, minimum |-> 0,
     keys |-> ks, properties |-> props, required |-> req]

\* the schema of demoForm
DemoSchema ==
    ObjectSchema(<<"fullName", "age", "email", "bio">>,
                 [fullName |-> StringSchema, age |-> AgeSchema,
                  email |-> EmailSchema, bio |-> StringSchema],
                 <<"fullName", "email">>)

\* {object: {a: string, b: {object: {c: string}}}}
NestedSchema ==
    ObjectSchema(<<"a", "b">>,
                 [a |-> StringSchema,
                  b |-> ObjectSchema(<<"c">>, [c |-> StringSchema], <<>>)],
                 <<>>)

\* {object: {b: {object: {c: string}}, a: string}}
NestedFirstSchema ==
    ObjectSchema(<<"b", "a">>,
                 [b |-> ObjectSchema(<<"c">>, [c |-> StringSchema], <<>>),
                  a |-> StringSchema],
                 <<>>)

\* {object: {a: {object: {c: string, b: string}}, b: {object: {c: string}}}}
TwoNestedSchema ==
    ObjectSchema(<<"a", "b">>,
                 [a |-> ObjectSchema(<<"c", "b">>,
                                     [c |-> StringSchema, b |-> StringSchema], <<>>),
                  b |-> ObjectSchema(<<"c">>, [c |-> StringSchema], <<>>)],
                 <<>>)

\* {object: {a: {object: {b: {object: {c: string}}}}, c: string}}
DeepSchema ==
    ObjectSchema(<<"a", "c">>,
                 [a |-> ObjectSchema(<<"b">>,
                                     [b |-> ObjectSchema(<<"c">>, [c |-> StringSchema],
                                                         <<>>)],
                                     <<>>),
                  c |-> StringSchema],
                 <<>>)

\* {object: {a: a string schema that carries properties, b: an object schema
\* without properties}}
TypedLeafSchema ==
    ObjectSchema(<<"a", "b">>,
                 [a |-> [ObjectSchema(<<"c">>, [c |-> StringSchema], <<>>)
                            EXCEPT !.type = "string"],
                  b |-> ObjectSchema(<<>>, NoProps, <<>>)],
                 <<>>)

\* a malformed definition: "bogus" is not a JSON-schema type
BrokenSchema == Leaf("bogus")

demoForm == [id |-> "demo-contact", name |-> "Demo Contact Form", schema |-> DemoSchema]

(***************************************************************************)
(* The definition objects callers hand to registerForm.  The store and the *)
(* sessions hold references to them (the name of the object), as the       *)
(* JavaScript maps and the definitionSnapshot field do.                    *)
(***************************************************************************)
FormObjects ==
    [demoForm |-> demoForm,
     contactV2 |-> [id |-> "demo-contact", name |-> "Contact v2", schema |-> NestedSchema],
     brokenForm |-> [id |-> "broken", name |-> "Broken", schema |-> BrokenSchema],
     nestedFirst |-> [id |-> "nested-first", name |-> "Nested first",
                      schema |-> NestedFirstSchema],
     twoNested |-> [id |-> "two-nested", name |-> "Two nested", schema |-> TwoNestedSchema],
     deepForm |-> [id |-> "deep", name |-> "Deep", schema |-> DeepSchema],
     typedLeaf |-> [id |-> "typed-leaf", name |-> "Typed leaf", schema |-> TypedLeafSchema]]

\* the definitions the callers of Spec and StoreSpec register
FormRefs == {"demoForm", "contactV2", "brokenForm"}

\* the definitions a form file of the forms directory may hold
FormFiles == {"contactV2", "nestedFirst", "twoNested", "deepForm", "typedLeaf"}

FormIds == {FormObjects[r].id : r \in FormRefs} \cup {"unknown-form-id"}

(***************************************************************************)
(* Paths.  A path is a string; its segments are joined with "." in a       *)
(* question path and with a leading "/" each in an ajv instance path.      *)
(***************************************************************************)
Segments == {"fullName", "age", "email", "bio", "a", "b", "c", "notes"}

\* the paths the callers of the model answer
AnswerPaths == {"fullName", "age", "email", "a", "b", "b.c", "notes"}

MaxDepth == 2

PartsUniverse ==
    UNION {[1..n -> Segments] : n \in 1..MaxDepth}

RECURSIVE JoinDot(_)
JoinDot(parts) ==
    IF Len(parts) = 1 THEN parts[1]
    ELSE parts[1] \o "." \o JoinDot(Tail(parts))

RECURSIVE Pointer(_)
Pointer(parts) ==
    IF parts = <<>> THEN ""
    ELSE "/" \o parts[1] \o Pointer(Tail(parts))

\* path.split("."), for every path whose segments are in Segments
splitTable ==
    [path \in {JoinDot(parts) : parts \in PartsUniverse} |->
        CHOOSE parts \in PartsUniverse : JoinDot(parts) = path]

Split(path) == splitTable[path]

\* instancePath.replace(/^\//, "").replace(/\//g, "."), for every instance path
\* ajv builds from segments in Segments
normalizeTable ==
    [instancePath \in {Pointer(parts) : parts \in PartsUniverse} |->
        JoinDot(CHOOSE parts \in PartsUniverse : Pointer(parts) = instancePath)]

normalizeAjvPath(instancePath) ==
    IF instancePath = "" THEN "" ELSE normalizeTable[instancePath]

(***************************************************************************)
(* deriveQuestionOrder(schema, basePath)                                   *)
(***************************************************************************)
RECURSIVE deriveQuestionOrder(_, _)
RECURSIVE deriveKeys(_, _, _)
\* the paths below a property come after the paths of all its siblings
RECURSIVE deriveKeys_siblingsFirst(_, _, _)
deriveKeys_siblingsFirst(schema, basePath, i) ==
    IF i > Len(schema.keys) THEN <<>>
    ELSE LET key == schema.keys[i]
             child == schema.properties[key]
             childPath == IF basePath # "" THEN basePath \o "." \o key ELSE key
         IN  <<childPath>> \o deriveKeys_siblingsFirst(schema, basePath, i + 1)
                 \o deriveQuestionOrder(child, childPath)

deriveKeys(schema, basePath, i) ==
    IF i > Len(schema.keys) THEN <<>>
    ELSE LET key == schema.keys[i]
             child == schema.properties[key]
             childPath == IF basePath # "" THEN basePath \o "." \o key ELSE key
         IN  <<childPath>> \o deriveQuestionOrder(child, childPath)
                 \o deriveKeys(schema, basePath, i + 1)

deriveQuestionOrder(schema, basePath) ==
    IF schema.type = "object" /\ Len(schema.keys) > 0
    THEN deriveKeys(schema, basePath, 1)
    ELSE <<>>

(***************************************************************************)
(* setDeepValue(target, path, value) on the parts of the path              *)
(***************************************************************************)
Put(f, k, v) == [x \in DOMAIN f \cup {k} |-> IF x = k THEN v ELSE f[x]]

RECURSIVE setDeepParts(_, _, _)
setDeepParts(target, parts, value) ==
    LET key == parts[1] IN
    IF Len(parts) = 1
    THEN ObjVal(Put(target.obj, key, value))
    ELSE LET current ==
                 IF key \in DOMAIN target.obj /\ target.obj[key].kind = "object"
                 THEN target.obj[key]
                 ELSE EmptyObject
         IN  ObjVal(Put(target.obj, key, setDeepParts(current, Tail(parts), value)))

setDeepValue(target, path, value) == setDeepParts(target, Split(path), value)

\* the loop of runSchemaValidation over Object.entries(session.data)
RECURSIVE groupedFrom(_, _)
groupedFrom(entries, grouped) ==
    IF entries = <<>> THEN grouped
    ELSE groupedFrom(Tail(entries),
                     setDeepValue(grouped, entries[1].path, entries[1].value))

(***************************************************************************)
(* ajv.compile and the compiled validator, for the schemas of the model:   *)
(* type, minimum, format "email", required and properties, all errors      *)
(* collected (allErrors: true).                                            *)
(***************************************************************************)
JsonTypes == {"string", "integer", "number", "boolean", "object", "array", "null"}

RECURSIVE Compiles(_)
Compiles(schema) ==
    /\ schema.type \in JsonTypes
    /\ \A k \in DOMAIN schema.properties : Compiles(schema.properties[k])

Err(instancePath, message) == [instancePath |-> instancePath, message |-> message]

RECURSIVE ajvErrors(_, _, _)
RECURSIVE requiredErrors(_, _, _, _)
RECURSIVE propertyErrors(_, _, _, _)
requiredErrors(schema, v, instancePath, i) ==
    IF i > Len(schema.required) THEN <<>>
    ELSE (IF schema.required[i] \in DOMAIN v.obj THEN <<>>
          ELSE <<Err(instancePath,
                     "must have required property '" \o schema.required[i] \o "'")>>)
         \o requiredErrors(schema, v, instancePath, i + 1)

propertyErrors(schema, v, instancePath, i) ==
    IF i > Len(schema.keys) THEN <<>>
    ELSE LET key == schema.keys[i] IN
         (IF key \in DOMAIN v.obj
          THEN ajvErrors(schema.properties[key], v.obj[key], instancePath \o "/" \o key)
          ELSE <<>>)
         \o propertyErrors(schema, v, instancePath, i + 1)

ajvErrors(schema, v, instancePath) ==
    IF schema.type # v.kind
    THEN <<Err(instancePath, "must be " \o schema.type)>>
    ELSE CASE v.kind = "integer" ->
                 IF schema.hasMinimum /\ v.num < schema.minimum
                 THEN <<Err(instancePath, "must be >= 0")>>
                 ELSE <<>>
           [] v.kind = "string" ->
                 IF schema.format = "email" /\ v.str \notin EmailStrings
                 THEN <<Err(instancePath, "must match format \"email\"")>>
                 ELSE <<>>
           [] v.kind = "object" ->
                 requiredErrors(schema, v, instancePath, 1)
                     \o propertyErrors(schema, v, instancePath, 1)
           [] OTHER -> <<>>

(***************************************************************************)
(* The state: the two maps of InMemoryFormStore (form id to definition,     *)
(* session id to session) and the error the last call threw, "none" when it *)
(* returned.                                                                *)
(***************************************************************************)
VARIABLES forms, sessions, thrown, bridge

vars == <<forms, sessions, thrown, bridge>>

(***************************************************************************)
(* Sessions.                                                               *)
(***************************************************************************)
Range(seq) == {seq[i] : i \in DOMAIN seq}

Max(a, b) == IF a >= b THEN a ELSE b

dataKeys(session) == {e.path : e \in Range(session.data)}

dataValue(session, path) ==
    (CHOOSE e \in Range(session.data) : e.path = path).value

\* session.data[path] = value
assignData(data, path, value) ==
    IF \E i \in DOMAIN data : data[i].path = path
    THEN [i \in DOMAIN data |->
             IF data[i].path = path THEN [path |-> path, value |-> value] ELSE data[i]]
    ELSE Append(data, [path |-> path, value |-> value])

\* a session is created complete
newSession_complete(sessionId, formId, form) ==
    [sessionId |-> sessionId,
     userId |-> Undefined,
     formId |-> formId,
     definitionSnapshot |-> form,
     data |-> <<>>,
     fields |-> NoProps,
     status |-> "complete",
     overallValidity |-> "unknown",
     questionOrder |-> deriveQuestionOrder(FormObjects[form].schema, ""),
     currentQuestionIndex |-> 0]

newSession(sessionId, formId, form) ==
    [sessionId |-> sessionId,
     userId |-> Undefined,
     formId |-> formId,
     definitionSnapshot |-> form,
     data |-> <<>>,
     fields |-> NoProps,
     status |-> "not-started",
     overallValidity |-> "unknown",
     questionOrder |-> deriveQuestionOrder(FormObjects[form].schema, ""),
     currentQuestionIndex |-> 0]

\* the schema is looked up again in the store by form id
schemaOf_registered(session) == FormObjects[forms[session.formId]].schema

\* const schema = session.definitionSnapshot.schema
schemaOf(session) == FormObjects[session.definitionSnapshot].schema

\* the document runSchemaValidation hands to the validator
grouped(session) == groupedFrom(session.data, EmptyObject)

\* the entries of the fieldErrors map, one per error, in the order of the errors
RECURSIVE fieldErrors(_)
fieldErrors(errors) ==
    IF errors = <<>> THEN <<>>
    ELSE <<[path |-> normalizeAjvPath(errors[1].instancePath),
            message |-> errors[1].message]>> \o fieldErrors(Tail(errors))

\* fieldErrors.get(path) ?? []
RECURSIVE errorsOf(_, _)
errorsOf(grouping, path) ==
    IF grouping = <<>> THEN <<>>
    ELSE (IF grouping[1].path = path THEN <<grouping[1].message>> ELSE <<>>)
         \o errorsOf(Tail(grouping), path)

\* the loop runs over the paths of the errors as well as over questionOrder
RECURSIVE rewriteFields_errorPaths(_, _, _, _)
rewriteFields_errorPaths(fields, questionOrder, grouping, i) ==
    LET paths == questionOrder \o [k \in DOMAIN grouping |-> grouping[k].path] IN
    IF i > Len(paths) THEN fields
    ELSE LET path == paths[i]
             existing == IF path \in DOMAIN fields THEN fields[path]
                         ELSE [path |-> path, value |-> Undefined, schemaValid |-> TRUE,
                               messages |-> <<>>, touched |-> FALSE]
             errs == errorsOf(grouping, path)
         IN  rewriteFields_errorPaths(
                 Put(fields, path,
                     [existing EXCEPT !.schemaValid = (Len(errs) = 0), !.messages = errs]),
                 questionOrder, grouping, i + 1)

\* a path without a FieldState is skipped instead of given the default one
RECURSIVE rewriteFields_knownOnly(_, _, _, _)
rewriteFields_knownOnly(fields, questionOrder, grouping, i) ==
    IF i > Len(questionOrder) THEN fields
    ELSE LET path == questionOrder[i]
             errs == errorsOf(grouping, path)
         IN  rewriteFields_knownOnly(
                 IF path \in DOMAIN fields
                 THEN Put(fields, path,
                          [fields[path] EXCEPT !.schemaValid = (Len(errs) = 0),
                                               !.messages = errs])
                 ELSE fields,
                 questionOrder, grouping, i + 1)

\* the messages of the pass are appended to those the field already has
RECURSIVE rewriteFields_appendMessages(_, _, _, _)
rewriteFields_appendMessages(fields, questionOrder, grouping, i) ==
    IF i > Len(questionOrder) THEN fields
    ELSE LET path == questionOrder[i]
             existing == IF path \in DOMAIN fields THEN fields[path]
                         ELSE [path |-> path, value |-> Undefined, schemaValid |-> TRUE,
                               messages |-> <<>>, touched |-> FALSE]
             errs == errorsOf(grouping, path)
         IN  rewriteFields_appendMessages(
                 Put(fields, path,
                     [existing EXCEPT !.schemaValid = (Len(errs) = 0),
                                      !.messages = @ \o errs]),
                 questionOrder, grouping, i + 1)

\* only the paths with violations are rewritten (and those without a FieldState
\* are given the default one)
RECURSIVE rewriteFields_violationsOnly(_, _, _, _)
rewriteFields_violationsOnly(fields, questionOrder, grouping, i) ==
    IF i > Len(questionOrder) THEN fields
    ELSE LET path == questionOrder[i]
             existing == IF path \in DOMAIN fields THEN fields[path]
                         ELSE [path |-> path, value |-> Undefined, schemaValid |-> TRUE,
                               messages |-> <<>>, touched |-> FALSE]
             errs == errorsOf(grouping, path)
         IN  rewriteFields_violationsOnly(
                 IF errs = <<>> THEN Put(fields, path, existing)
                 ELSE Put(fields, path,
                          [existing EXCEPT !.schemaValid = FALSE, !.messages = errs]),
                 questionOrder, grouping, i + 1)

\* the loop of runSchemaValidation over session.questionOrder
RECURSIVE rewriteFields(_, _, _, _)
rewriteFields(fields, questionOrder, grouping, i) ==
    IF i > Len(questionOrder) THEN fields
    ELSE LET path == questionOrder[i]
             existing == IF path \in DOMAIN fields THEN fields[path]
                         ELSE [path |-> path, value |-> Undefined, schemaValid |-> TRUE,
                               messages |-> <<>>, touched |-> FALSE]
             errs == errorsOf(grouping, path)
         IN  rewriteFields(
                 Put(fields, path,
                     [existing EXCEPT !.schemaValid = (Len(errs) = 0), !.messages = errs]),
                 questionOrder, grouping, i + 1)

\* the status is left alone when the document is valid
runSchemaValidation_neverComplete(session) ==
    LET errors == ajvErrors(schemaOf(session), grouped(session), "")
        valid == errors = <<>>
    IN  [session EXCEPT
            !.fields = rewriteFields(session.fields, session.questionOrder,
                                     fieldErrors(errors), 1),
            !.overallValidity = IF valid THEN "valid" ELSE "invalid"]

\* the status is set to complete whatever the validator says
runSchemaValidation_alwaysComplete(session) ==
    LET errors == ajvErrors(schemaOf(session), grouped(session), "")
        valid == errors = <<>>
    IN  [session EXCEPT
            !.fields = rewriteFields(session.fields, session.questionOrder,
                                     fieldErrors(errors), 1),
            !.overallValidity = IF valid THEN "valid" ELSE "invalid",
            !.status = "complete"]

\* runSchemaValidation(session) when ajv.compile(schema) does not throw
runSchemaValidation(session) ==
    LET errors == ajvErrors(schemaOf(session), grouped(session), "")
        valid == errors = <<>>
    IN  [session EXCEPT
            !.fields = rewriteFields(session.fields, session.questionOrder,
                                     fieldErrors(errors), 1),
            !.overallValidity = IF valid THEN "valid" ELSE "invalid",
            !.status = IF valid THEN "complete" ELSE @]

\* the status is not advanced by an answer
mutateField_keepsStatus(session, path, value) ==
    LET hasExisting == path \in DOMAIN session.fields
        updated == [path |-> path,
                    value |-> value,
                    schemaValid |-> IF hasExisting THEN session.fields[path].schemaValid
                                    ELSE FALSE,
                    messages |-> IF hasExisting THEN session.fields[path].messages
                                 ELSE <<>>,
                    touched |-> TRUE]
    IN  [session EXCEPT
            !.data = assignData(@, path, value),
            !.fields = Put(@, path, updated)]

\* every answer puts the session back in progress
mutateField_demotes(session, path, value) ==
    LET hasExisting == path \in DOMAIN session.fields
        updated == [path |-> path,
                    value |-> value,
                    schemaValid |-> IF hasExisting THEN session.fields[path].schemaValid
                                    ELSE FALSE,
                    messages |-> IF hasExisting THEN session.fields[path].messages
                                 ELSE <<>>,
                    touched |-> TRUE]
    IN  [session EXCEPT
            !.data = assignData(@, path, value),
            !.fields = Put(@, path, updated),
            !.status = "in-progress"]

\* an answer clears the touched flag of every other field
mutateField_untouchesOthers(session, path, value) ==
    LET hasExisting == path \in DOMAIN session.fields
        updated == [path |-> path,
                    value |-> value,
                    schemaValid |-> IF hasExisting THEN session.fields[path].schemaValid
                                    ELSE FALSE,
                    messages |-> IF hasExisting THEN session.fields[path].messages
                                 ELSE <<>>,
                    touched |-> TRUE]
    IN  [session EXCEPT
            !.data = assignData(@, path, value),
            !.fields = Put([p \in DOMAIN @ |-> [@[p] EXCEPT !.touched = FALSE]],
                           path, updated),
            !.status = IF @ = "not-started" THEN "in-progress" ELSE @]

\* the FieldState of a path answered before keeps the value of the first answer
mutateField_keepsValue(session, path, value) ==
    LET hasExisting == path \in DOMAIN session.fields
        updated == [path |-> path,
                    value |-> IF hasExisting /\ session.fields[path].touched
                              THEN session.fields[path].value ELSE value,
                    schemaValid |-> IF hasExisting THEN session.fields[path].schemaValid
                                    ELSE FALSE,
                    messages |-> IF hasExisting THEN session.fields[path].messages
                                 ELSE <<>>,
                    touched |-> TRUE]
    IN  [session EXCEPT
            !.data = assignData(@, path, value),
            !.fields = Put(@, path, updated),
            !.status = IF @ = "not-started" THEN "in-progress" ELSE @]

\* the statements of setFieldValue before its call of runSchemaValidation
mutateField(session, path, value) ==
    LET hasExisting == path \in DOMAIN session.fields
        updated == [path |-> path,
                    value |-> value,
                    schemaValid |-> IF hasExisting THEN session.fields[path].schemaValid
                                    ELSE FALSE,
                    messages |-> IF hasExisting THEN session.fields[path].messages
                                 ELSE <<>>,
                    touched |-> TRUE]
    IN  [session EXCEPT
            !.data = assignData(@, path, value),
            !.fields = Put(@, path, updated),
            !.status = IF @ = "not-started" THEN "in-progress" ELSE @]

\* the answer is stored and no validation pass follows
setFieldValue_noValidation(session, path, value) ==
    mutateField(session, path, value)

\* an answer to the current question moves the cursor to the next one
setFieldValue_advances(session, path, value) ==
    LET mutated == mutateField(session, path, value)
        moved == IF session.currentQuestionIndex < Len(session.questionOrder) - 1
                    /\ path = session.questionOrder[session.currentQuestionIndex + 1]
                 THEN [mutated EXCEPT !.currentQuestionIndex = @ + 1]
                 ELSE mutated
    IN  IF Compiles(schemaOf(moved)) THEN runSchemaValidation(moved) ELSE moved

\* setFieldValue(session, path, value): the session it leaves behind, whether
\* it returns or the compilation of the schema throws
setFieldValue(session, path, value) ==
    LET mutated == mutateField(session, path, value) IN
    IF Compiles(schemaOf(mutated)) THEN runSchemaValidation(mutated) ELSE mutated

\* off by one: the guard admits the last index
moveToNextQuestion_pastEnd(session) ==
    IF session.currentQuestionIndex <= Len(session.questionOrder) - 1
    THEN [session EXCEPT !.currentQuestionIndex = @ + 1]
    ELSE session

moveToNextQuestion(session) ==
    IF session.currentQuestionIndex < Len(session.questionOrder) - 1
    THEN [session EXCEPT !.currentQuestionIndex = @ + 1]
    ELSE session

\* at the first question the index wraps around to the last one
moveToPreviousQuestion_wraps(session) ==
    IF session.currentQuestionIndex > 0
    THEN [session EXCEPT !.currentQuestionIndex = @ - 1]
    ELSE [session EXCEPT !.currentQuestionIndex = Max(0, Len(session.questionOrder) - 1)]

moveToPreviousQuestion(session) ==
    IF session.currentQuestionIndex > 0
    THEN [session EXCEPT !.currentQuestionIndex = @ - 1]
    ELSE session

\* the element after the current one is returned
getCurrentQuestionPath_next(session) ==
    IF session.currentQuestionIndex + 2 \in DOMAIN session.questionOrder
    THEN session.questionOrder[session.currentQuestionIndex + 2]
    ELSE "null"

\* session.questionOrder[session.currentQuestionIndex] ?? null
getCurrentQuestionPath(session) ==
    IF session.currentQuestionIndex + 1 \in DOMAIN session.questionOrder
    THEN session.questionOrder[session.currentQuestionIndex + 1]
    ELSE "null"

(***************************************************************************)
(* The store and the tool handlers.  Session ids are the numbers 1, 2, ... *)
(* in the order uuidv4() hands them out; 0 and numbers not yet handed out  *)
(* are unknown ids.                                                        *)
(***************************************************************************)
SessionIds == DOMAIN sessions

\* a path outside every questionOrder of the model
OutsidePath == "notes"

\* 0 is a session id the store never handed out
CallIds == SessionIds \cup {0}

\* the paths a caller answers: in a session, its questions and one path outside
\* them; with an unknown session id, one path stands for all
PathsFor(sessionId) ==
    IF sessionId \in SessionIds
    THEN (Range(sessions[sessionId].questionOrder) \cap AnswerPaths) \cup {OutsidePath}
    ELSE {OutsidePath}

\* two values per path: for email a string that is no address and one that is,
\* for age an integer below the minimum and one above, elsewhere a string and
\* an integer
ValuesFor(sessionId, path) ==
    IF sessionId \notin SessionIds THEN {StrVal("Alice")}
    ELSE IF path = "email" THEN {StrVal("Alice"), StrVal("alice@example.com")}
    ELSE IF path = "age" THEN {IntVal(-1), IntVal(30)}
    ELSE {StrVal("Alice"), IntVal(30)}

RECURSIVE entriesUpTo(_)
entriesUpTo(i) == IF i = 0 THEN 0 ELSE Len(sessions[i].data) + entriesUpTo(i - 1)

TotalEntries == entriesUpTo(Len(sessions))

\* the HTTP bridge after startHttpBridge: no request received, nothing written
\* to the child (stdin) or by it (stdout), no listener on child.stdout;
\* responses[r] lists the res.end calls of the r-th request received
bridgeStarted ==
    [requests |-> 0, stdin |-> <<>>, stdout |-> <<>>, listeners |-> <<>>,
     responses |-> <<>>]

Init ==
    /\ forms = [id \in {"demo-contact"} |-> "demoForm"]
    /\ sessions = <<>>
    /\ thrown = "none"
    /\ bridge = bridgeStarted

\* the definition is stored only under an id the map does not hold yet
registerForm_keepsFirst(def) ==
    /\ forms' = IF FormObjects[def].id \in DOMAIN forms THEN forms
                ELSE Put(forms, FormObjects[def].id, def)
    /\ thrown' = "none"
    /\ UNCHANGED sessions

registerForm(def) ==
    /\ forms' = Put(forms, FormObjects[def].id, def)
    /\ thrown' = "none"
    /\ UNCHANGED sessions

\* this.forms.get(id): the definition (its reference), or undefined
getForm(id) == IF id \in DOMAIN forms THEN forms[id] ELSE "undefined"

\* [...this.forms.values()]: one element per key of the map
listForms ==
    LET ids == CHOOSE seq \in [1..Cardinality(DOMAIN forms) -> DOMAIN forms] :
                   Range(seq) = DOMAIN forms
    IN  [i \in DOMAIN ids |-> forms[ids[i]]]

\* this.sessions.get(sessionId): the session, or undefined
getSession(sessionId) ==
    IF sessionId \in SessionIds THEN sessions[sessionId] ELSE Undefined

\* an unregistered form id is ignored without an error
createSession_silent(formId) ==
    IF formId \notin DOMAIN forms
    THEN /\ thrown' = "none"
         /\ UNCHANGED <<forms, sessions>>
    ELSE /\ LET sessionId == Len(sessions) + 1 IN
            sessions' = Append(sessions, newSession(sessionId, formId, forms[formId]))
         /\ thrown' = "none"
         /\ UNCHANGED forms

\* the new session is stored under the id of the last session of the store
createSession_reusesId(formId) ==
    IF formId \notin DOMAIN forms
    THEN /\ thrown' = "FormNotFound"
         /\ UNCHANGED <<forms, sessions>>
    ELSE /\ LET sessionId == Max(1, Len(sessions)) IN
            sessions' = IF sessions = <<>>
                        THEN <<newSession(sessionId, formId, forms[formId])>>
                        ELSE [sessions EXCEPT
                                 ![sessionId] = newSession(sessionId, formId, forms[formId])]
         /\ thrown' = "none"
         /\ UNCHANGED forms

createSession(formId) ==
    IF formId \notin DOMAIN forms
    THEN /\ thrown' = "FormNotFound"
         /\ UNCHANGED <<forms, sessions>>
    ELSE /\ LET sessionId == Len(sessions) + 1 IN
            sessions' = Append(sessions, newSession(sessionId, formId, forms[formId]))
         /\ thrown' = "none"
         /\ UNCHANGED forms

\* the user identifiers callers pass: none, the empty string and two names
UserIds == {Undefined, StrVal(""), StrVal("alice"), StrVal("bob")}

\* listSessions() without an argument
NoFilter == Undefined

\* !filter?.userId: no filter, no userId in it, or the empty string
noUserId(filter) ==
    \/ filter = NoFilter
    \/ filter.userId = Undefined
    \/ filter.userId = StrVal("")

\* listSessions(filter): the sessions in the order of the map
listSessions(filter) ==
    LET matches(session) == session.userId = filter.userId IN
    IF noUserId(filter) THEN sessions
    ELSE SelectSeq(sessions, matches)

\* start_form_session of the server that takes a user: createSession(formId, userId)
start_form_session(formId, userId) ==
    IF formId \notin DOMAIN forms
    THEN /\ thrown' = "FormNotFound"
         /\ UNCHANGED <<forms, sessions>>
    ELSE /\ LET sessionId == Len(sessions) + 1 IN
            sessions' = Append(sessions,
                               [newSession(sessionId, formId, forms[formId])
                                   EXCEPT !.userId = userId])
         /\ thrown' = "none"
         /\ UNCHANGED forms

\* the handler lists the sessions of the user and writes nothing
list_user_forms(userId) ==
    /\ thrown' = "none"
    /\ UNCHANGED <<forms, sessions>>

\* the handler reads the session and writes nothing
get_form_state(sessionId) ==
    IF getSession(sessionId) = Undefined
    THEN /\ thrown' = "SessionNotFound"
         /\ UNCHANGED <<forms, sessions>>
    ELSE /\ thrown' = "none"
         /\ UNCHANGED <<forms, sessions>>

set_field_value(sessionId, path, value) ==
    IF sessionId \notin SessionIds
    THEN /\ thrown' = "SessionNotFound"
         /\ UNCHANGED <<forms, sessions>>
    ELSE /\ sessions' = [sessions EXCEPT ![sessionId] = setFieldValue(@, path, value)]
         /\ thrown' = IF Compiles(schemaOf(sessions[sessionId])) THEN "none"
                      ELSE "CompileError"
         /\ UNCHANGED forms

\* the cursor of every session of the store is moved
next_question_allSessions(sessionId) ==
    IF sessionId \notin SessionIds
    THEN /\ thrown' = "SessionNotFound"
         /\ UNCHANGED <<forms, sessions>>
    ELSE /\ sessions' = [s \in SessionIds |-> moveToNextQuestion(sessions[s])]
         /\ thrown' = "none"
         /\ UNCHANGED forms

next_question(sessionId) ==
    IF sessionId \notin SessionIds
    THEN /\ thrown' = "SessionNotFound"
         /\ UNCHANGED <<forms, sessions>>
    ELSE /\ sessions' = [sessions EXCEPT ![sessionId] = moveToNextQuestion(@)]
         /\ thrown' = "none"
         /\ UNCHANGED forms

previous_question(sessionId) ==
    IF sessionId \notin SessionIds
    THEN /\ thrown' = "SessionNotFound"
         /\ UNCHANGED <<forms, sessions>>
    ELSE /\ sessions' = [sessions EXCEPT ![sessionId] = moveToPreviousQuestion(@)]
         /\ thrown' = "none"
         /\ UNCHANGED forms

validate_form(sessionId) ==
    IF sessionId \notin SessionIds
    THEN /\ thrown' = "SessionNotFound"
         /\ UNCHANGED <<forms, sessions>>
    ELSE IF Compiles(schemaOf(sessions[sessionId]))
         THEN /\ sessions' = [sessions EXCEPT ![sessionId] = runSchemaValidation(@)]
              /\ thrown' = "none"
              /\ UNCHANGED forms
         ELSE /\ thrown' = "CompileError"
              /\ UNCHANGED <<forms, sessions>>

\* the call answers a path its session holds no answer for
NewEntry(sessionId, path) ==
    sessionId \in SessionIds /\ path \notin dataKeys(sessions[sessionId])

\* One session, filled in by one caller: no second session is opened, and a
\* path not answered before is answered only while the bound leaves room.
Next ==
    \/ UNCHANGED bridge /\ \E def \in FormRefs : registerForm(def)
    \/ UNCHANGED bridge /\ \E formId \in FormIds :
           /\ formId \in DOMAIN forms => sessions = <<>>
           /\ createSession(formId)
    \/ UNCHANGED bridge /\ \E sessionId \in CallIds :
           \E path \in PathsFor(sessionId) : \E value \in ValuesFor(sessionId, path) :
               /\ NewEntry(sessionId, path) => TotalEntries < MaxEntries
               /\ set_field_value(sessionId, path, value)
    \/ UNCHANGED bridge /\ \E sessionId \in CallIds : next_question(sessionId)
    \/ UNCHANGED bridge /\ \E sessionId \in CallIds : previous_question(sessionId)
    \/ UNCHANGED bridge /\ \E sessionId \in CallIds : validate_form(sessionId)
    \/ UNCHANGED bridge /\ \E sessionId \in CallIds : get_form_state(sessionId)

Spec == Init /\ [][Next]_vars

\* Several sessions side by side.
StoreNext ==
    \/ UNCHANGED bridge /\ \E def \in FormRefs : registerForm(def)
    \/ UNCHANGED bridge /\ \E formId \in FormIds :
           /\ formId \in DOMAIN forms => Len(sessions) < MaxSessions
           /\ createSession(formId)
    \/ UNCHANGED bridge /\ \E sessionId \in CallIds :
           \E path \in PathsFor(sessionId) : \E value \in ValuesFor(sessionId, path) :
               /\ NewEntry(sessionId, path) => TotalEntries < MaxStoreEntries
               /\ set_field_value(sessionId, path, value)
    \/ UNCHANGED bridge /\ \E sessionId \in CallIds : next_question(sessionId)
    \/ UNCHANGED bridge /\ \E sessionId \in CallIds : previous_question(sessionId)
    \/ UNCHANGED bridge /\ \E sessionId \in CallIds : validate_form(sessionId)
    \/ UNCHANGED bridge /\ \E sessionId \in CallIds : get_form_state(sessionId)

StoreSpec == Init /\ [][StoreNext]_vars

\* The server started with one form file in its forms directory: the demo form
\* is registered, then the definition of the file.
LoadedInit ==
    /\ \E def \in FormFiles :
           forms = Put([id \in {"demo-contact"} |-> "demoForm"], FormObjects[def].id, def)
    /\ sessions = <<>>
    /\ thrown = "none"
    /\ bridge = bridgeStarted

\* The tools of that server; no definition is registered after the start.
LoadedNext ==
    \/ UNCHANGED bridge /\ \E formId \in {FormObjects[def].id : def \in FormFiles} \cup {"unknown-form-id"} :
           /\ formId \in DOMAIN forms => Len(sessions) < MaxSessions
           /\ createSession(formId)
    \/ UNCHANGED bridge /\ \E sessionId \in CallIds :
           \E path \in PathsFor(sessionId) : \E value \in ValuesFor(sessionId, path) :
               /\ NewEntry(sessionId, path) => TotalEntries < MaxStoreEntries
               /\ set_field_value(sessionId, path, value)
    \/ UNCHANGED bridge /\ \E sessionId \in CallIds : next_question(sessionId)
    \/ UNCHANGED bridge /\ \E sessionId \in CallIds : previous_question(sessionId)
    \/ UNCHANGED bridge /\ \E sessionId \in CallIds : validate_form(sessionId)
    \/ UNCHANGED bridge /\ \E sessionId \in CallIds : get_form_state(sessionId)

LoadedSpec == LoadedInit /\ [][LoadedNext]_vars

\* The server whose sessions belong to users.
UserNext ==
    \/ UNCHANGED bridge /\ \E formId \in FormIds : \E userId \in UserIds :
           /\ formId \in DOMAIN forms => Len(sessions) < MaxSessions
           /\ start_form_session(formId, userId)
    \/ UNCHANGED bridge /\ \E userId \in UserIds \ {Undefined} : list_user_forms(userId)
    \/ UNCHANGED bridge /\ \E sessionId \in CallIds :
           \E path \in PathsFor(sessionId) : \E value \in ValuesFor(sessionId, path) :
               /\ NewEntry(sessionId, path) => TotalEntries < MaxStoreEntries
               /\ set_field_value(sessionId, path, value)
    \/ UNCHANGED bridge /\ \E sessionId \in CallIds : next_question(sessionId)
    \/ UNCHANGED bridge /\ \E sessionId \in CallIds : previous_question(sessionId)
    \/ UNCHANGED bridge /\ \E sessionId \in CallIds : validate_form(sessionId)
    \/ UNCHANGED bridge /\ \E sessionId \in CallIds : get_form_state(sessionId)

UserSpec == Init /\ [][UserNext]_vars

(***************************************************************************)
(* The HTTP bridge: a request is the number of its arrival, the message    *)
(* written to the child for request r is r, and the child's reply to it    *)
(* has the body replyBody(r).                                              *)
(***************************************************************************)
\* what a res.end call sends
Ended(statusCode, body) == [statusCode |-> statusCode, body |-> body]

errorBody(text) == [text |-> text, replyTo |-> 0, trailing |-> FALSE]

\* the body of the child's reply to message r
replyBody(r) == [text |-> "", replyTo |-> r, trailing |-> FALSE]

\* parts[1] of a chunk: the body of its first reply, followed by the header of
\* the next reply when the chunk holds more than one
bodyPart(chunk) == [replyBody(chunk[1]) EXCEPT !.trailing = Len(chunk) > 1]

\* a request that is not a POST
rejectMethod ==
    /\ bridge.requests < MaxRequests
    /\ bridge' = [bridge EXCEPT
                     !.requests = @ + 1,
                     !.responses = Append(@, <<Ended(405, errorBody("Only POST supported"))>>)]
    /\ UNCHANGED <<forms, sessions, thrown>>

\* a POST whose body is not JSON
rejectBody ==
    /\ bridge.requests < MaxRequests
    /\ bridge' = [bridge EXCEPT
                     !.requests = @ + 1,
                     !.responses = Append(@, <<Ended(400, errorBody("Invalid JSON body"))>>)]
    /\ UNCHANGED <<forms, sessions, thrown>>

\* the end of a POST with a JSON body: the message is written to the child's
\* stdin and onData is registered on the child's stdout
requestEnd ==
    /\ bridge.requests < MaxRequests
    /\ LET r == bridge.requests + 1 IN
       bridge' = [bridge EXCEPT
                     !.requests = r,
                     !.stdin = Append(@, r),
                     !.listeners = Append(@, r),
                     !.responses = Append(@, <<>>)]
    /\ UNCHANGED <<forms, sessions, thrown>>

\* the child reads the next message and writes its reply
childAnswers ==
    /\ bridge.stdin # <<>>
    /\ bridge' = [bridge EXCEPT
                     !.stdin = Tail(@),
                     !.stdout = Append(@, Head(bridge.stdin))]
    /\ UNCHANGED <<forms, sessions, thrown>>

\* a "data" event of child.stdout with the next n replies in its chunk: every
\* registered onData ends its response with parts[1] and removes itself
onData(n) ==
    /\ n <= Len(bridge.stdout)
    /\ LET chunk == SubSeq(bridge.stdout, 1, n) IN
       bridge' = [bridge EXCEPT
                     !.stdout = SubSeq(@, n + 1, Len(@)),
                     !.listeners = <<>>,
                     !.responses =
                         [r \in DOMAIN @ |->
                             IF r \in Range(bridge.listeners)
                             THEN Append(@[r], Ended(200, bodyPart(chunk)))
                             ELSE @[r]]]
    /\ UNCHANGED <<forms, sessions, thrown>>

BridgeNext ==
    \/ rejectMethod
    \/ rejectBody
    \/ requestEnd
    \/ childAnswers
    \/ \E n \in 1..2 : onData(n)

BridgeSpec == Init /\ [][BridgeNext]_vars

(***************************************************************************)
(* Properties.                                                             *)
(***************************************************************************)
\* what a validation pass over the session's present data reports, computed
\* from the definition the session refers to
validityNow(session) ==
    IF ajvErrors(FormObjects[session.definitionSnapshot].schema,
                 groupedFrom(session.data, EmptyObject), "") = <<>>
    THEN "valid" ELSE "invalid"

statusRank(status) ==
    CASE status = "not-started" -> 0
      [] status = "in-progress" -> 1
      [] status = "complete" -> 2

\* the step is a call of setFieldValue on the session that returned (the
\* comparison of the data comes first because it is cheap to evaluate)
SetReturned(s, path, value) ==
    /\ thrown' = "none"
    /\ sessions'[s].data = assignData(sessions[s].data, path, value)
    /\ set_field_value(s, path, value)

\* the step is a call of runSchemaValidation on the session that returned
ValidateReturned(s) ==
    /\ thrown' = "none"
    /\ sessions'[s].data = sessions[s].data
    /\ validate_form(s)

\* C1: in every reachable state, 0 <= currentQuestionIndex <=
\* max(0, len(questionOrder) - 1) for every session, also when questionOrder is
\* empty: the index never leaves the list and never wraps around.
IndexInBounds ==
    \A s \in SessionIds :
        /\ 0 <= sessions[s].currentQuestionIndex
        /\ sessions[s].currentQuestionIndex
               <= Max(0, Len(sessions[s].questionOrder) - 1)

\* an answered and validated session navigated to its last question
IndexAtLastQuestion ==
    \E s \in SessionIds :
        /\ Len(sessions[s].questionOrder) > 1
        /\ sessions[s].currentQuestionIndex = Len(sessions[s].questionOrder) - 1
        /\ sessions[s].data # <<>>
        /\ sessions[s].overallValidity # "unknown"

\* C2: a status becomes complete only in a step that runs a validation pass (a
\* setFieldValue or runSchemaValidation call on that session) whose result is
\* valid; a session is never created complete, and no registration or
\* navigation step completes one.
CompleteOnlyByValidPass ==
    [][/\ \A s \in SessionIds :
              (sessions[s].status # "complete" /\ sessions'[s].status = "complete")
                  => /\ sessions'[s].overallValidity = "valid"
                     /\ \/ validate_form(s)
                        \/ \E path \in PathsFor(s), value \in Values :
                               set_field_value(s, path, value)
       /\ \A s \in DOMAIN sessions' \ SessionIds : sessions'[s].status # "complete"
      ]_vars

\* a session completed by a valid pass
CompletedValid ==
    \E s \in SessionIds :
        /\ sessions[s].status = "complete"
        /\ sessions[s].overallValidity = "valid"
        /\ sessions[s].data # <<>>

\* C3: the status only moves forward along not-started < in-progress <
\* complete: a complete session stays complete, also when a later answer makes
\* the document invalid, and no status returns to not-started.
StatusMonotone ==
    [][\A s \in SessionIds :
           statusRank(sessions'[s].status) >= statusRank(sessions[s].status)]_vars

\* a complete session whose document a later answer made invalid
CompleteButInvalid ==
    \E s \in SessionIds :
        /\ sessions[s].status = "complete"
        /\ sessions[s].overallValidity = "invalid"

\* C4: a session's overallValidity is unknown or is what validating the
\* document rebuilt from its present data against its definition reports; it
\* is not unknown once a setFieldValue call has returned (the session holds an
\* answer and its schema compiles).
ValidityMatchesData ==
    \A s \in SessionIds :
        /\ sessions[s].overallValidity # "unknown"
               => sessions[s].overallValidity = validityNow(sessions[s])
        /\ (sessions[s].data # <<>>
               /\ Compiles(FormObjects[sessions[s].definitionSnapshot].schema))
               => sessions[s].overallValidity # "unknown"

\* a session that went from invalid answers to a valid document
ValidatedAfterAnswers ==
    \E s \in SessionIds :
        /\ Len(sessions[s].data) >= 2
        /\ sessions[s].overallValidity = "valid"
        /\ thrown = "none"

FailedCallChangesNothing ==
    [][thrown' # "none" => UNCHANGED <<forms, sessions>>]_vars

\* C7: a session's questionOrder and definitionSnapshot never change, and a
\* validation pass on it reports the validity of its data under the schema it
\* was created with, whatever is registered under its form id by then; a
\* session created later takes the definition registered at that moment.
SnapshotFixed ==
    [][/\ \A s \in SessionIds :
              /\ sessions'[s].questionOrder = sessions[s].questionOrder
              /\ sessions'[s].definitionSnapshot = sessions[s].definitionSnapshot
              /\ sessions'[s].formId = sessions[s].formId
              /\ ValidateReturned(s)
                     => sessions'[s].overallValidity = validityNow(sessions[s])
       /\ \A s \in DOMAIN sessions' \ SessionIds :
              /\ sessions'[s].definitionSnapshot = forms[sessions'[s].formId]
              /\ sessions'[s].questionOrder =
                     deriveQuestionOrder(FormObjects[forms[sessions'[s].formId]].schema, "")
      ]_vars

\* an answered, validated session of the first definition next to a session
\* of the definition registered under the same id later
SessionsOfBothDefinitions ==
    /\ Len(sessions) = 2
    /\ sessions[1].formId = sessions[2].formId
    /\ sessions[1].definitionSnapshot = "demoForm"
    /\ sessions[2].definitionSnapshot = "contactV2"
    /\ forms[sessions[1].formId] = "contactV2"
    /\ sessions[1].data # <<>>
    /\ sessions[1].overallValidity = "invalid"
    /\ sessions[1].questionOrder # sessions[2].questionOrder

\* the sub-schema a question path names
RECURSIVE schemaAtParts(_, _)
schemaAtParts(schema, parts) ==
    IF parts = <<>> THEN schema
    ELSE schemaAtParts(schema.properties[parts[1]], Tail(parts))

schemaAt(session, path) ==
    schemaAtParts(FormObjects[session.definitionSnapshot].schema, Split(path))

\* the value satisfies the constraint of the question the path names
Satisfies(session, path, value) == ajvErrors(schemaAt(session, path), value, "") = <<>>

requiredPaths(session) == Range(FormObjects[session.definitionSnapshot].schema.required)

RequiredAnswered(session) ==
    \A path \in requiredPaths(session) :
        /\ path \in dataKeys(session)
        /\ Satisfies(session, path, dataValue(session, path))

\* C8: after setFieldValue(session, path, value) returns, data[path] = value,
\* fields[path].touched holds and the status is not not-started; on a fresh
\* session of the demo form, setFieldValue(session, "fullName", "Alice")
\* leaves the status in-progress.
AnswerIsRecorded ==
    [][\A s \in SessionIds : \A path \in PathsFor(s), value \in Values :
           SetReturned(s, path, value)
               => /\ path \in dataKeys(sessions'[s])
                  /\ dataValue(sessions'[s], path) = value
                  /\ path \in DOMAIN sessions'[s].fields
                  /\ sessions'[s].fields[path].touched
                  /\ sessions'[s].status # "not-started"
                  /\ (/\ sessions[s].definitionSnapshot = "demoForm"
                      /\ sessions[s].data = <<>>
                      /\ sessions[s].status = "not-started"
                      /\ path = "fullName"
                      /\ value = StrVal("Alice"))
                         => sessions'[s].status = "in-progress"]_vars

\* the demo session after its first answer, fullName = "Alice"
DemoFullNameAnswered ==
    \E s \in SessionIds :
        /\ sessions[s].definitionSnapshot = "demoForm"
        /\ sessions[s].data = <<[path |-> "fullName", value |-> StrVal("Alice")]>>
        /\ sessions[s].fields["fullName"].touched
        /\ sessions[s].status = "in-progress"
        /\ thrown = "none"

\* C9 (as stated): when a setFieldValue call that answers a required path
\* returns and every required path then holds a value satisfying its
\* constraint, overallValidity is valid and the status complete.
RequiredAnswersComplete ==
    [][\A s \in SessionIds : \A path \in PathsFor(s), value \in Values :
           (/\ SetReturned(s, path, value)
            /\ path \in requiredPaths(sessions[s])
            /\ RequiredAnswered(sessions'[s]))
               => /\ sessions'[s].overallValidity = "valid"
                  /\ sessions'[s].status = "complete"]_vars

\* every answer the session holds is for a top-level property of its schema and
\* satisfies that property's constraint
OnlyValidProperties(session) ==
    \A e \in Range(session.data) :
        /\ e.path \in Range(FormObjects[session.definitionSnapshot].schema.keys)
        /\ Satisfies(session, e.path, e.value)

\* C9 (amended): the same, provided every other answer the session holds is
\* for a top-level property of the schema and satisfies its constraint.
RequiredAndValidAnswersComplete ==
    [][\A s \in SessionIds : \A path \in PathsFor(s), value \in Values :
           (/\ SetReturned(s, path, value)
            /\ path \in requiredPaths(sessions[s])
            /\ RequiredAnswered(sessions'[s])
            /\ OnlyValidProperties(sessions'[s]))
               => /\ sessions'[s].overallValidity = "valid"
                  /\ sessions'[s].status = "complete"]_vars

\* the demo session completed by valid answers to fullName and email
DemoRequiredAnswered ==
    \E s \in SessionIds :
        /\ sessions[s].definitionSnapshot = "demoForm"
        /\ dataKeys(sessions[s]) = {"fullName", "email"}
        /\ RequiredAnswered(sessions[s])
        /\ sessions[s].overallValidity = "valid"
        /\ sessions[s].status = "complete"

\* C10: when setFieldValue returns after answering a path of questionOrder with
\* a value that violates that question's own type or format, overallValidity
\* is invalid, fields[path].schemaValid is false and fields[path].messages is
\* not empty.
BadAnswerIsReported ==
    [][\A s \in SessionIds : \A path \in PathsFor(s), value \in Values :
           (/\ SetReturned(s, path, value)
            /\ path \in Range(sessions[s].questionOrder)
            /\ ~Satisfies(sessions[s], path, value))
               => /\ sessions'[s].overallValidity = "invalid"
                  /\ ~sessions'[s].fields[path].schemaValid
                  /\ sessions'[s].fields[path].messages # <<>>]_vars

\* the step is a validation pass on the session that returned
PassReturned(s) ==
    \/ ValidateReturned(s)
    \/ \E path \in PathsFor(s), value \in Values : SetReturned(s, path, value)

CoversQuestions(session) == Range(session.questionOrder) \subseteq DOMAIN session.fields

\* C11: once a validation pass has run on a session (a runSchemaValidation or
\* setFieldValue call that returned, after which overallValidity is no longer
\* unknown), fields has an entry for every path of questionOrder, and no later
\* step takes one away.
FieldsCoverQuestions ==
    [][\A s \in SessionIds :
           /\ PassReturned(s) => CoversQuestions(sessions'[s])
           /\ sessions[s].overallValidity # "unknown" => CoversQuestions(sessions[s])
           /\ CoversQuestions(sessions[s]) => CoversQuestions(sessions'[s])]_vars

\* after a pass, a question nobody answered has the default FieldState
UnansweredQuestionListed ==
    \E s \in SessionIds :
        /\ sessions[s].overallValidity # "unknown"
        /\ sessions[s].data # <<>>
        /\ \E path \in Range(sessions[s].questionOrder) :
               /\ path \notin dataKeys(sessions[s])
               /\ path \in DOMAIN sessions[s].fields
               /\ ~sessions[s].fields[path].touched

\* C12: a second runSchemaValidation right after a first, with the data as it
\* was, leaves fields, overallValidity and status (the whole session) as the
\* first call left them.
ValidationIdempotent ==
    \A s \in SessionIds :
        Compiles(schemaOf(sessions[s]))
            => LET once == runSchemaValidation(sessions[s])
               IN  runSchemaValidation(once) = once

\* a session with a reported violation, as a pass left it
InvalidPassRepeated ==
    \E s \in SessionIds :
        /\ thrown = "none"
        /\ sessions[s].overallValidity = "invalid"
        /\ \E path \in DOMAIN sessions[s].fields : sessions[s].fields[path].messages # <<>>
        /\ runSchemaValidation(sessions[s]) = sessions[s]

\* the step is a call of a session tool with the session id
SessionToolCalled(sessionId) ==
    \/ get_form_state(sessionId)
    \/ next_question(sessionId)
    \/ previous_question(sessionId)
    \/ validate_form(sessionId)
    \/ \E path \in PathsFor(sessionId), value \in Values :
           set_field_value(sessionId, path, value)

\* C13: createSession with a form id that is not registered fails with
\* FormNotFound and adds no session; for a session id the store does not know,
\* getSession gives the not-found signal and every session tool fails with
\* SessionNotFound, and neither failure changes a session or the registry.
UnknownIdsAreReported ==
    [][/\ \A formId \in FormIds \ DOMAIN forms :
              createSession(formId)
                  => /\ thrown' = "FormNotFound"
                     /\ sessions' = sessions
                     /\ forms' = forms
       /\ \A sessionId \in CallIds \ SessionIds :
              /\ getSession(sessionId) = Undefined
              /\ SessionToolCalled(sessionId)
                     => /\ thrown' = "SessionNotFound"
                        /\ sessions' = sessions
                        /\ forms' = forms
       /\ thrown' \in {"FormNotFound", "SessionNotFound"}
              => sessions' = sessions /\ forms' = forms]_vars

\* a call with an unknown session id failed while the store held an answered
\* session
UnknownSessionReported ==
    /\ thrown = "SessionNotFound"
    /\ sessions # <<>>
    /\ sessions[1].data # <<>>
    /\ "unknown-form-id" \notin DOMAIN forms

\* C14: createSession for a registered form id returns without error and
\* stores, under an id no session of the store has, a session with data = {},
\* fields = {}, status not-started, overallValidity unknown,
\* currentQuestionIndex 0 and the questionOrder derived from the schema
\* registered under the form id at that moment; every session the store held
\* is still there, as it was.
SessionCreatedFresh ==
    [][\A formId \in DOMAIN forms :
           createSession(formId)
               => /\ thrown' = "none"
                  /\ \E s \in DOMAIN sessions' \ SessionIds :
                         /\ DOMAIN sessions' = SessionIds \cup {s}
                         /\ sessions'[s].sessionId = s
                         /\ sessions'[s].formId = formId
                         /\ sessions'[s].data = <<>>
                         /\ sessions'[s].fields = NoProps
                         /\ sessions'[s].status = "not-started"
                         /\ sessions'[s].overallValidity = "unknown"
                         /\ sessions'[s].currentQuestionIndex = 0
                         /\ sessions'[s].questionOrder =
                                deriveQuestionOrder(FormObjects[forms[formId]].schema, "")
                  /\ \A t \in SessionIds : sessions'[t] = sessions[t]]_vars

\* a session just created from the re-registered definition, next to an
\* answered session
FreshSessionBesideAnswered ==
    /\ Len(sessions) = 2
    /\ thrown = "none"
    /\ sessions[1].data # <<>>
    /\ sessions[1].status # "not-started"
    /\ sessions[2].definitionSnapshot = "contactV2"
    /\ sessions[2].questionOrder = <<"a", "b", "b.c">>
    /\ sessions[2].data = <<>>
    /\ sessions[2].fields = NoProps
    /\ sessions[2].status = "not-started"

\* C15: next_question adds exactly one to currentQuestionIndex when it is below
\* the last index and changes nothing at the last index or when questionOrder
\* is empty; previous_question subtracts exactly one above zero and changes
\* nothing at zero; a call repeated at its boundary leaves the session as it
\* is.
NavigationByOne ==
    [][\A s \in SessionIds :
           LET index == sessions[s].currentQuestionIndex
               last == Len(sessions[s].questionOrder) - 1
           IN  /\ next_question(s)
                      => sessions'[s] =
                             [sessions[s] EXCEPT !.currentQuestionIndex =
                                 IF index < last THEN index + 1 ELSE index]
               /\ previous_question(s)
                      => sessions'[s] =
                             [sessions[s] EXCEPT !.currentQuestionIndex =
                                 IF index > 0 THEN index - 1 ELSE index]
               /\ index >= last
                      => moveToNextQuestion(moveToNextQuestion(sessions[s])) = sessions[s]
               /\ index = 0
                      => moveToPreviousQuestion(moveToPreviousQuestion(sessions[s]))
                             = sessions[s]]_vars

\* a session navigated to a question that is neither the first nor the last
IndexInTheMiddle ==
    \E s \in SessionIds :
        /\ thrown = "none"
        /\ sessions[s].currentQuestionIndex = 1
        /\ Len(sessions[s].questionOrder) >= 3

\* the key sequences of the properties at and below a schema: those of its own
\* properties and, below each, those of the property's schema, when the schema
\* is object-typed with named properties
RECURSIVE schemaParts(_)
schemaParts(schema) ==
    IF schema.type = "object" /\ schema.keys # <<>>
    THEN UNION {{<<schema.keys[i]>>}
                    \cup {<<schema.keys[i]>> \o sub :
                              sub \in schemaParts(schema.properties[schema.keys[i]])} :
                i \in DOMAIN schema.keys}
    ELSE {}

declarationIndex(schema, key) == CHOOSE i \in DOMAIN schema.keys : schema.keys[i] = key

\* p comes before q in depth-first pre-order: p is an ancestor of q, or where
\* they part p follows the property declared first
RECURSIVE PreOrderBefore(_, _, _)
PreOrderBefore(schema, p, q) ==
    IF p = <<>> THEN q # <<>>
    ELSE IF q = <<>> THEN FALSE
    ELSE IF p[1] = q[1] THEN PreOrderBefore(schema.properties[p[1]], Tail(p), Tail(q))
    ELSE declarationIndex(schema, p[1]) < declarationIndex(schema, q[1])

IsPreOrder(schema, order) ==
    LET parts == schemaParts(schema) IN
    /\ Len(order) = Cardinality(parts)
    /\ \A i \in DOMAIN order : \E p \in parts : JoinDot(p) = order[i]
    /\ \A i, j \in DOMAIN order :
           i < j => \E p, q \in parts : /\ JoinDot(p) = order[i]
                                        /\ JoinDot(q) = order[j]
                                        /\ PreOrderBefore(schema, p, q)

\* C16: the questionOrder createSession derives lists every property path of
\* the schema once, in depth-first pre-order by declaration order, descending
\* only into object-typed properties with named properties; for
\* {object: {a: string, b: {object: {c: string}}}} it is <<"a", "b", "b.c">>,
\* and two sessions of one definition have the same questionOrder.
QuestionsInPreOrder ==
    \A s \in SessionIds :
        /\ IsPreOrder(schemaOf(sessions[s]), sessions[s].questionOrder)
        /\ sessions[s].questionOrder = deriveQuestionOrder(schemaOf(sessions[s]), "")
        /\ schemaOf(sessions[s]) = NestedSchema
               => sessions[s].questionOrder = <<"a", "b", "b.c">>
        /\ \A t \in SessionIds :
               sessions[t].definitionSnapshot = sessions[s].definitionSnapshot
                   => sessions[t].questionOrder = sessions[s].questionOrder

\* two sessions of the schema {object: {a: string, b: {object: {c: string}}}}
NestedOrderDerivedTwice ==
    /\ Len(sessions) = 2
    /\ \A s \in SessionIds :
           /\ schemaOf(sessions[s]) = NestedSchema
           /\ sessions[s].questionOrder = <<"a", "b", "b.c">>

\* C17: a touched flag that is true stays true in every later state of the
\* session, whatever setFieldValue and runSchemaValidation calls follow; the
\* field of a path that holds an answer is touched, and the field of a path
\* nobody answered is not.
TouchedNeverCleared ==
    [][\A s \in SessionIds :
           /\ \A path \in DOMAIN sessions[s].fields :
                  sessions[s].fields[path].touched
                      => /\ path \in DOMAIN sessions'[s].fields
                         /\ sessions'[s].fields[path].touched
           /\ \A path \in DOMAIN sessions'[s].fields :
                  sessions'[s].fields[path].touched <=> path \in dataKeys(sessions'[s])
      ]_vars

\* a validated session with two answered fields, one of them answered again,
\* and a field nobody answered
TouchedKeptAcrossCalls ==
    \E s \in SessionIds :
        /\ sessions[s].overallValidity # "unknown"
        /\ Len(sessions[s].data) >= 2
        /\ \A e \in Range(sessions[s].data) : sessions[s].fields[e.path].touched
        /\ \E path \in DOMAIN sessions[s].fields : ~sessions[s].fields[path].touched

\* C18: registerForm returns without error whether or not its id is taken;
\* afterwards getForm of that id is the definition just registered and getForm
\* of every other id is what it was; nothing but registerForm changes the
\* registry; getForm of an id never registered is undefined; listForms holds
\* one definition for each registered id, the one getForm returns.
RegistryLastWriteWins ==
    [][/\ \A def \in FormRefs :
              registerForm(def)
                  => /\ thrown' = "none"
                     /\ getForm(FormObjects[def].id)' = def
                     /\ \A id \in FormIds \ {FormObjects[def].id} :
                            getForm(id)' = getForm(id)
       /\ forms' # forms => \E def \in FormRefs : registerForm(def)
       /\ \A id \in FormIds \ DOMAIN forms' : getForm(id)' = "undefined"
       /\ Len(listForms') = Cardinality(DOMAIN forms')
       /\ \A id \in DOMAIN forms' :
              \E i \in DOMAIN listForms' :
                  /\ listForms'[i] = getForm(id)'
                  /\ \A j \in DOMAIN listForms' :
                         FormObjects[listForms'[j]].id = id => j = i]_vars

\* the demo definition replaced under its id, next to a second registered id
DefinitionReplaced ==
    /\ thrown = "none"
    /\ getForm("demo-contact") = "contactV2"
    /\ getForm("broken") = "brokenForm"
    /\ Len(listForms) = 2

\* a session after setFieldValue was called on it with each entry in turn
RECURSIVE answerAll(_, _)
answerAll(session, entries) ==
    IF entries = <<>> THEN session
    ELSE answerAll(setFieldValue(session, entries[1].path, entries[1].value),
                   Tail(entries))

\* the two sessions agree on overallValidity and, for every question, on
\* schemaValid and messages
SameVerdict(one, other) ==
    /\ one.overallValidity = other.overallValidity
    /\ \A path \in Range(one.questionOrder) :
           /\ one.fields[path].schemaValid = other.fields[path].schemaValid
           /\ one.fields[path].messages = other.fields[path].messages

\* C19: a second session of the same form that receives the answers a session
\* holds through setFieldValue in any other order ends with the same
\* overallValidity and, for every path of questionOrder, the same schemaValid
\* and messages, also when one answered path is a dot-prefix of another.
AnswerOrderIrrelevant ==
    \A s \in SessionIds :
        (sessions[s].data # <<>> /\ sessions[s].overallValidity # "unknown")
            => \A order \in Permutations(DOMAIN sessions[s].data) :
                   SameVerdict(sessions[s],
                               answerAll(newSession(s, sessions[s].formId,
                                                    sessions[s].definitionSnapshot),
                                         [i \in DOMAIN sessions[s].data |->
                                             sessions[s].data[order[i]]]))

\* the messages of the violations whose normalized instance path is the path,
\* in the order of the violations
messagesFor(errors, path) ==
    LET At(err) == normalizeAjvPath(err.instancePath) = path
        own == SelectSeq(errors, At)
    IN  [i \in DOMAIN own |-> own[i].message]

\* every question's FieldState says what the violations of the session's
\* present document say
FieldsMatchViolations(session) ==
    LET errors == ajvErrors(FormObjects[session.definitionSnapshot].schema,
                            groupedFrom(session.data, EmptyObject), "")
    IN  \A path \in Range(session.questionOrder) :
            /\ session.fields[path].schemaValid
                   <=> \A i \in DOMAIN errors :
                           normalizeAjvPath(errors[i].instancePath) # path
            /\ session.fields[path].messages = messagesFor(errors, path)

\* C20: after a validation pass (a setFieldValue or runSchemaValidation call
\* that returned), for every path of questionOrder, schemaValid is true exactly
\* when the pass produced no violation at that path and messages is exactly
\* the list of the pass's messages for it: nothing of an earlier pass is left,
\* and a field that became valid has no messages.  As every change of data is
\* followed by a pass, this holds whenever overallValidity is not unknown.
PassRewritesEveryQuestion ==
    [][\A s \in SessionIds :
           /\ PassReturned(s) => FieldsMatchViolations(sessions'[s])
           /\ sessions[s].overallValidity # "unknown"
                  => FieldsMatchViolations(sessions[s])]_vars

\* the demo session with a corrected email, now valid and without messages,
\* and an age still below the minimum
CorrectedFieldHasNoMessages ==
    \E s \in SessionIds :
        /\ sessions[s].definitionSnapshot = "demoForm"
        /\ sessions[s].overallValidity = "invalid"
        /\ {"email", "age"} \subseteq dataKeys(sessions[s])
        /\ sessions[s].fields["email"].schemaValid
        /\ sessions[s].fields["email"].messages = <<>>
        /\ ~sessions[s].fields["age"].schemaValid
        /\ sessions[s].fields["age"].messages = <<"must be >= 0">>
        /\ sessions[s].fields["fullName"].schemaValid
        /\ ~sessions[s].fields["fullName"].touched

\* C21: a navigation call changes nothing of its session but
\* currentQuestionIndex, and moves it whether the current field is valid or
\* not; a setFieldValue or runSchemaValidation call, whether it returns or
\* throws, leaves currentQuestionIndex as it is.
NavigationOnlyMovesCursor ==
    [][\A s \in SessionIds :
           /\ (next_question(s) \/ previous_question(s))
                  => [sessions'[s] EXCEPT !.currentQuestionIndex = 0]
                         = [sessions[s] EXCEPT !.currentQuestionIndex = 0]
           /\ (next_question(s) /\ sessions[s].currentQuestionIndex
                                       < Len(sessions[s].questionOrder) - 1)
                  => sessions'[s].currentQuestionIndex
                         = sessions[s].currentQuestionIndex + 1
           /\ (validate_form(s)
                  \/ \E path \in PathsFor(s), value \in Values :
                         /\ sessions'[s].data = assignData(sessions[s].data, path, value)
                         /\ set_field_value(s, path, value))
                  => sessions'[s].currentQuestionIndex = sessions[s].currentQuestionIndex
      ]_vars

\* the cursor moved on from a question whose answer is invalid, and an answer
\* given afterwards left it there
MovedPastInvalidField ==
    \E s \in SessionIds :
        /\ sessions[s].currentQuestionIndex = 2
        /\ Len(sessions[s].data) >= 2
        /\ LET path == sessions[s].questionOrder[2]
           IN  /\ path \in dataKeys(sessions[s])
               /\ ~sessions[s].fields[path].schemaValid

\* C22: listSessions without a filter returns every session of the store;
\* with a user identifier, the empty string included, it returns exactly the
\* sessions whose userId is that identifier.
ListSessionsExactMatch ==
    /\ listSessions(NoFilter) = sessions
    /\ \A userId \in UserIds \ {Undefined} :
           Range(listSessions([userId |-> userId]))
               = {sessions[s] : s \in {t \in SessionIds : sessions[t].userId = userId}}

\* C23: getCurrentQuestionPath returns the element of questionOrder at
\* currentQuestionIndex (counted from 0) when questionOrder is not empty, a
\* path of questionOrder and never null, and null when questionOrder is empty.
CurrentPathIsAQuestion ==
    \A s \in SessionIds :
        LET session == sessions[s] IN
        IF session.questionOrder = <<>>
        THEN getCurrentQuestionPath(session) = "null"
        ELSE /\ getCurrentQuestionPath(session) # "null"
             /\ getCurrentQuestionPath(session) \in Range(session.questionOrder)
             /\ \E i \in DOMAIN session.questionOrder :
                    /\ i - 1 = session.currentQuestionIndex
                    /\ getCurrentQuestionPath(session) = session.questionOrder[i]

\* the demo session at its last question
CurrentPathIsLastQuestion ==
    \E s \in SessionIds :
        /\ sessions[s].definitionSnapshot = "demoForm"
        /\ sessions[s].currentQuestionIndex = 3
        /\ getCurrentQuestionPath(sessions[s]) = "bio"

\* C24: when a session's overallValidity is valid, every FieldState of its
\* fields, those of paths outside questionOrder included, has schemaValid true
\* and no messages.
ValidMeansAllFieldsValid ==
    \A s \in SessionIds :
        sessions[s].overallValidity = "valid"
            => \A path \in DOMAIN sessions[s].fields :
                   /\ sessions[s].fields[path].schemaValid
                   /\ sessions[s].fields[path].messages = <<>>

\* C25: when a session's overallValidity is invalid, some FieldState of its
\* fields has schemaValid false and a message, also when the failure is a
\* missing required property.
InvalidMeansSomeFieldFlagged ==
    \A s \in SessionIds :
        sessions[s].overallValidity = "invalid"
            => \E path \in DOMAIN sessions[s].fields :
                   /\ ~sessions[s].fields[path].schemaValid
                   /\ sessions[s].fields[path].messages # <<>>

\* C26 (as stated): a complete session holds at least one answer.
CompleteMeansAnswered ==
    \A s \in SessionIds :
        sessions[s].status = "complete" => sessions[s].data # <<>>

\* the schema of the session accepts the document without any answer
AcceptsEmpty(session) ==
    ajvErrors(FormObjects[session.definitionSnapshot].schema, EmptyObject, "") = <<>>

\* C26 (amended): a complete session holds at least one answer or its schema
\* accepts the empty document; runSchemaValidation on a session without
\* answers whose schema does not accept the empty document reports invalid
\* and leaves the status as it is, not-started.
CompleteMeansAnsweredOrNothingRequired ==
    [][\A s \in SessionIds :
           /\ sessions[s].status = "complete"
                  => sessions[s].data # <<>> \/ AcceptsEmpty(sessions[s])
           /\ (ValidateReturned(s) /\ sessions[s].data = <<>> /\ ~AcceptsEmpty(sessions[s]))
                  => /\ sessions'[s].status = "not-started"
                     /\ sessions'[s].overallValidity = "invalid"]_vars

\* validate_form was called on the fresh session of the demo form
FreshDemoSessionValidated ==
    \E s \in SessionIds :
        /\ sessions[s].definitionSnapshot = "demoForm"
        /\ sessions[s].data = <<>>
        /\ sessions[s].overallValidity = "invalid"
        /\ sessions[s].status = "not-started"

\* the step is a call on the session, or the creation of a session
CallOn(s) ==
    \/ next_question(s)
    \/ previous_question(s)
    \/ validate_form(s)
    \/ \E path \in PathsFor(s), value \in Values :
           /\ sessions'[s].data = assignData(sessions[s].data, path, value)
           /\ set_field_value(s, path, value)

\* C27: a setFieldValue, moveToNext, moveToPrevious or runSchemaValidation call
\* on one session, whether it returns or throws, and the creation of a new
\* session leave every other session of the store exactly as it was, also a
\* session created from the same definition.
SessionsIsolated ==
    [][/\ \A s \in SessionIds :
              CallOn(s) => \A t \in SessionIds \ {s} : sessions'[t] = sessions[t]
       /\ \A formId \in FormIds :
              createSession(formId) => \A t \in SessionIds : sessions'[t] = sessions[t]
      ]_vars

\* two sessions of the demo definition: the second answered, validated and
\* navigated, the first as it was created
SecondSessionUsedAlone ==
    /\ Len(sessions) = 2
    /\ sessions[1].definitionSnapshot = "demoForm"
    /\ sessions[2].definitionSnapshot = "demoForm"
    /\ sessions[1].data = <<>>
    /\ sessions[1].fields = NoProps
    /\ sessions[1].status = "not-started"
    /\ sessions[1].currentQuestionIndex = 0
    /\ sessions[2].data # <<>>
    /\ sessions[2].overallValidity = "invalid"
    /\ sessions[2].currentQuestionIndex = 1

\* C28: in every state, the FieldState of a touched field has the value data
\* holds for its path, whatever validation passes and answers to other paths
\* came after the answer, and the FieldState of a field that is not touched
\* has the value undefined and its path is no key of data.
TouchedFieldsMirrorData ==
    \A s \in SessionIds : \A path \in DOMAIN sessions[s].fields :
        IF sessions[s].fields[path].touched
        THEN /\ path \in dataKeys(sessions[s])
             /\ sessions[s].fields[path].value = dataValue(sessions[s], path)
        ELSE /\ sessions[s].fields[path].value = Undefined
             /\ path \notin dataKeys(sessions[s])

\* the demo session with a corrected email and an age, bio never answered
AnswersMirrored ==
    \E s \in SessionIds :
        /\ sessions[s].definitionSnapshot = "demoForm"
        /\ sessions[s].status = "in-progress"
        /\ dataKeys(sessions[s]) = {"email", "age"}
        /\ sessions[s].data[1].path = "email"
        /\ sessions[s].fields["email"].value = StrVal("alice@example.com")
        /\ sessions[s].fields["age"].value = IntVal(30)
        /\ sessions[s].fields["bio"].value = Undefined

\* C29: every response of the bridge is ended at most once, and a response
\* ended with a reply of the child carries the whole reply to the message of
\* its own request and nothing else, also when several requests are in flight.
EachRequestGetsItsOwnReply ==
    \A r \in DOMAIN bridge.responses :
        /\ Len(bridge.responses[r]) <= 1
        /\ \A i \in DOMAIN bridge.responses[r] :
               bridge.responses[r][i].statusCode = 200
                   => bridge.responses[r][i].body = replyBody(r)

TypeOK ==
    /\ DOMAIN forms \subseteq {FormObjects[def].id : def \in DOMAIN FormObjects}
    /\ \A s \in SessionIds : sessions[s].status \in {"not-started", "in-progress", "complete"}
=============================================================================
